---- MODULE Spec2Model ----
(***************************************************************************)
(* Model of universal_client.py: the authentication strategies             *)
(* (APIKeyAuth, ClientCredentialsAuth), the request executor               *)
(* (UniversalAPIClient._make_request, get) and the pagination engine       *)
(* (UniversalAPIClient.get_all).                                           *)
(*                                                                         *)
(* Spec: one client instance and one thread of control.  Every blocking    *)
(* HTTP call (the token POST of _authenticate, requests.request in         *)
(* _make_request) ends a step: the code up to the call is one action, the  *)
(* reply is the input of the next action, which runs the code up to the    *)
(* next blocking call or to the return/raise of the top-level operation.   *)
(*                                                                         *)
(* SpecThreads: two threads that call get_auth_data() and force_refresh()  *)
(* on one shared ClientCredentialsAuth, a step being one read or write of  *)
(* a field of the object.                                                  *)
(***************************************************************************)
EXTENDS Integers, Sequences, FiniteSets

\* ------------------------------------------------------------------ bounds

\* time.time() takes the values 0..MaxClock
MaxClock == 1

\* a get_all is followed until it has asked MaxRepeats times for the same
\* offset / page
MaxRepeats == 2

\* ------------------------------------------------------- program constants

DefaultExpiresIn == 3600       \* token_data.get("expires_in", 3600)
DefaultLimit == 50             \* params.get(limit_field, 50)
OffsetCeiling == 25            \* if offset >= 25: break
PageCeiling == 3               \* if page > 3: break
IterationCeiling == 3          \* if iteration >= 3: break
Unauthorized == 401            \* response.status_code == 401

\* ------------------------------------------------------------ input domains

\* An optional value (a dict key that may be missing, a variable that may be
\* None) is the empty set or a singleton.
Absent == {}

Some(x) == {x}

Get(opt, default) == IF opt = Absent THEN default ELSE CHOOSE x \in opt : TRUE

\* self.access_token: None, or the string the token endpoint sent
NoneToken == "<None>"

Tokens == {"", "tokA"}

ApiKey == "key"

\* a dict: a function from its keys
NoEntries == [k \in {} |-> ""]

Entry(k, v) == [x \in {k} |-> v]

\* dict.update: d with the entries of e written over it
Update(d, e) ==
    [k \in (DOMAIN d) \cup (DOMAIN e) |-> IF k \in DOMAIN e THEN e[k] ELSE d[k]]

\* a query parameter value: a string or a number
Str(x) == [str |-> x, num |-> 0]

Num(n) == [str |-> "", num |-> n]

\* APIKeyAuth.name: the header / query parameter that carries the key
Names == {"x-api-key", "offset", "page"}

\* APIKeyAuth.extra_headers
ExtraHeaders ==
    {NoEntries, Update(Entry("Accept", "json"), Entry("x-api-key", "other"))}

\* the params a caller passes to get / post
RequestParams ==
    {NoEntries, Update(Entry("q", Str("drake")), Entry("x-api-key", Str("mine")))}

\* f"Bearer {self.access_token}"
Bearer(tok) ==
    CASE tok = "" -> "Bearer "
      [] tok = "tokA" -> "Bearer tokA"
      [] tok = "tokB" -> "Bearer tokB"
      [] OTHER -> "Bearer None"

AuthKinds == {"api_key", "client_credentials"}

Locations == {"header", "query", "cookie"}

\* replies of the token endpoint: a failure status, a 200 without
\* access_token, a 200 with access_token and an optional expires_in, a 200
\* with an empty access_token, a 200 with access_token and an expires_in that
\* is not a number ("3600", null)
TokenReplies ==
    {[status |-> 500, has_token |-> FALSE, access_token |-> "", expires_in |-> Absent,
      numeric |-> TRUE]}
    \cup {[status |-> 200, has_token |-> FALSE, access_token |-> "", expires_in |-> Absent,
           numeric |-> TRUE]}
    \cup [status : {200}, has_token : {TRUE}, access_token : Tokens \ {""},
          expires_in : {Absent, Some(0), Some(1)}, numeric : {TRUE}]
    \cup {[status |-> 200, has_token |-> TRUE, access_token |-> "", expires_in |-> Absent,
           numeric |-> TRUE]}
    \cup [status : {200}, has_token : {TRUE}, access_token : Tokens \ {""},
          expires_in : {Absent}, numeric : {FALSE}]

Strategies == {"offset", "page", "has_more", "cursor"}

\* params[limit_field] as given by the caller
Limits == {Absent, Some(0), Some(10), Some(25)}

\* the limits tried with a strategy: only OFFSET reads params[limit_field]
LimitsFor(strat) == IF strat = "offset" THEN Limits ELSE {Absent}

PageSizes == {0, 5, 10}

\* the items of one page: fresh ids first, first+1, ...
Items(first, n) == [i \in 1..n |-> first + i - 1]

Reply(st, js, ord, tc, tp, hm) ==
    [status |-> st, json |-> js, orders |-> ord,
     total_count |-> tc, total_pages |-> tp, has_more |-> hm]

\* a response without a JSON body
BareReply(st) == Reply(st, FALSE, <<>>, Absent, Absent, Absent)

NoReply == BareReply(0)

\* the pagination metadata a list endpoint of the given convention may send
Metadata(strat) ==
    CASE strat = "offset" ->
           [total_count : {Absent, Some(20)}, total_pages : {Absent}, has_more : {Absent}]
      [] strat = "page" ->
           [total_count : {Absent}, total_pages : {Absent, Some(2)}, has_more : {Absent}]
      [] strat = "has_more" ->
           [total_count : {Absent}, total_pages : {Absent}, has_more : {Absent, Some(TRUE), Some(FALSE)}]
      [] OTHER ->
           [total_count : {Absent}, total_pages : {Absent}, has_more : {Absent}]

\* replies of the target API: a JSON page, or a bodiless 304 / 401 / 500
ApiReplies(strat, first) ==
    {Reply(200, TRUE, Items(first, n), m.total_count, m.total_pages, m.has_more) :
        n \in PageSizes, m \in Metadata(strat)}
    \cup {BareReply(st) : st \in {304, Unauthorized, 500}}

\* ------------------------------------------------------------------- state

VARIABLES
    authKind,       \* which class self.auth is (UniversalAPIClient._create_auth)
    location,       \* APIKeyAuth.location
    name,           \* APIKeyAuth.name
    extra_headers,  \* APIKeyAuth.extra_headers
    now,            \* time.time()
    access_token,   \* ClientCredentialsAuth.access_token
    expiry_time,    \* ClientCredentialsAuth.expiry_time
    op,             \* the top-level operation called last, "idle" before the first
    pc,             \* the blocking call the operation waits in, "done" once it is over
    outcome,        \* what the last top-level operation returned or raised
    strategy,       \* get_all: strategy
    limit,          \* get_all: limit
    offset,         \* get_all: offset
    total_count,    \* get_all: total_count
    page,           \* get_all: page
    iteration,      \* get_all: iteration
    has_more,       \* get_all: has_more
    results,        \* get_all: results
    params,         \* the params of the current get / post; get_all: params
    auth_data,      \* what get_auth_data returned last; _make_request: auth_data
    final_params,   \* _make_request: final_params
    nextItem,       \* the id of the next item the list endpoint serves
    log,            \* history: token POSTs and API requests of the current _make_request
    responses,      \* history: the API responses of the current _make_request
    asked,          \* history: the offset / page parameter of each get of the current get_all
    served,         \* history: the parsed response of each get of the current get_all
    pre,            \* history: token state and clock when get_auth_data was called
    granted,        \* history: token and expiry of the last token fetch that succeeded
    thread,         \* per thread sharing one ClientCredentialsAuth: its call and position
    issued          \* history: the access tokens the token endpoint has sent to threads

config == <<authKind, location, name, extra_headers>>

\* the calls of the single-threaded client
calls == <<op, pc, outcome, strategy, limit, offset,
           total_count, page, iteration, has_more, results, nextItem,
           log, responses, asked, served, pre, params, auth_data, final_params,
           granted>>

frame == <<access_token, expiry_time, calls>>

\* the calls of the threads that share the auth object
shared == <<thread, issued>>

vars == <<config, now, frame, shared>>

\* The mutable state as one record, so that the code of one step is a
\* composition of functions from state to state.
Cur ==
    [access_token |-> access_token, expiry_time |-> expiry_time, op |-> op,
     pc |-> pc, outcome |-> outcome, strategy |-> strategy, limit |-> limit,
     offset |-> offset, total_count |-> total_count, page |-> page,
     iteration |-> iteration, has_more |-> has_more, results |-> results,
     nextItem |-> nextItem, log |-> log, responses |-> responses,
     asked |-> asked, served |-> served, pre |-> pre, params |-> params,
     auth_data |-> auth_data, final_params |-> final_params, granted |-> granted]

Becomes(s) ==
    /\ access_token' = s.access_token
    /\ expiry_time' = s.expiry_time
    /\ op' = s.op
    /\ pc' = s.pc
    /\ outcome' = s.outcome
    /\ strategy' = s.strategy
    /\ limit' = s.limit
    /\ offset' = s.offset
    /\ total_count' = s.total_count
    /\ page' = s.page
    /\ iteration' = s.iteration
    /\ has_more' = s.has_more
    /\ results' = s.results
    /\ nextItem' = s.nextItem
    /\ log' = s.log
    /\ responses' = s.responses
    /\ asked' = s.asked
    /\ served' = s.served
    /\ pre' = s.pre
    /\ params' = s.params
    /\ auth_data' = s.auth_data
    /\ final_params' = s.final_params
    /\ granted' = s.granted
    /\ UNCHANGED <<config, now, shared>>

Outcome(kind, resp, items, auth) ==
    [kind |-> kind, resp |-> resp, items |-> items, auth |-> auth]

NoOutcome == Outcome("none", NoReply, <<>>, "")

NoPre == [token |-> NoneToken, expiry |-> 0, clock |-> 0]

\* a thread that has not called the auth object yet
NoThread ==
    [op |-> "idle", pc |-> "idle", saw |-> Absent, fetches |-> 0,
     token_data |-> Absent, ret |-> Absent]

Threads == {"t1", "t2"}

\* a token POST (requests.post in _authenticate) / an API request
\* (requests.request in _make_request) and the credential it carries
FetchEvent == [ev |-> "fetch", auth |-> "", headers |-> NoEntries, params |-> NoEntries]

RequestEvent(cred, hdrs, prms) ==
    [ev |-> "request", auth |-> cred, headers |-> hdrs, params |-> prms]

\* BaseAuth.get_auth_data: the dict {"headers": ..., "params": ...}
NoAuthData == [headers |-> NoEntries, params |-> NoEntries]

\* mutant: an exception is swallowed and what was accumulated is returned
RaiseSwallowed(s, kind, resp) ==
    [s EXCEPT !.pc = "done", !.outcome = Outcome("results", NoReply, s.results, "")]

\* the top-level operation returns / raises: control is back with the caller
Return(s, o) == [s EXCEPT !.pc = "done", !.outcome = o]

Raise(s, kind, resp) == Return(s, Outcome(kind, resp, <<>>, ""))

\* --------------------------------------------------- ClientCredentialsAuth

\* `not self.access_token`
Falsy(tok) == tok = NoneToken \/ tok = ""

\* mutant: the expiry instant itself still counts as valid
NeedsAuthLate(tok, exp, t) == Falsy(tok) \/ t > exp

\* the test of get_auth_data: not self.access_token or time.time() >= self.expiry_time
NeedsAuth(tok, exp, t) == Falsy(tok) \/ t >= exp

\* _authenticate up to requests.post
PostToken(s, where) == [s EXCEPT !.pc = where, !.log = Append(@, FetchEvent)]

\* response.raise_for_status() / token_data["access_token"] /
\* time.time() + expires_in of _authenticate raises
TokenReplyFails(r) == r.status >= 400 \/ ~r.has_token \/ ~r.numeric

\* self.access_token = token_data["access_token"]
AssignToken(s, r) == [s EXCEPT !.access_token = r.access_token]

\* the exception of _authenticate; time.time() + expires_in raises TypeError
\* after self.access_token was assigned
AuthError(s, r) ==
    IF r.status >= 400 THEN Raise(s, "TokenHTTPError", BareReply(r.status))
    ELSE IF ~r.has_token THEN Raise(s, "KeyError", NoReply)
    ELSE Raise(AssignToken(s, r), "TypeError", NoReply)

\* _authenticate after a good reply: the two assignments
SetToken(s, r) ==
    LET exp == now + Get(r.expires_in, DefaultExpiresIn) IN
    [AssignToken(s, r) EXCEPT !.expiry_time = exp,
                              !.granted = Some([token |-> r.access_token, expiry |-> exp])]

\* force_refresh up to requests.post
ClearToken(s) == [s EXCEPT !.access_token = NoneToken, !.expiry_time = 0]

\* -------------------------------------------------------------- APIKeyAuth

ValidLocation(loc) == loc \in {"header", "query"}

\* mutant: the key is written over the extra headers
ApiKeyAuthDataKeyLast(loc, nm, key, extra) ==
    IF loc = "header"
    THEN [headers |-> Update(extra, Entry(nm, key)), params |-> NoEntries]
    ELSE [headers |-> extra, params |-> Entry(nm, Str(key))]

\* APIKeyAuth.get_auth_data for a valid location
ApiKeyAuthData(loc, nm, key, extra) ==
    IF loc = "header"
    THEN [headers |-> Update(Entry(nm, key), extra), params |-> NoEntries]
    ELSE [headers |-> extra, params |-> Entry(nm, Str(key))]

\* the return value of ClientCredentialsAuth.get_auth_data
BearerAuthData(tok) ==
    [headers |-> Entry("Authorization", Bearer(tok)), params |-> NoEntries]

\* --------------------------------------------------------- _make_request

\* auth_data = self.auth.get_auth_data() has returned ad
WithAuth(s, ad) == [s EXCEPT !.auth_data = ad]

\* mutant: the caller's params are written over the auth params
FinalParamsCallerWins(prm, auth_params) == Update(auth_params, prm)

\* final_params = {}; final_params.update(params); final_params.update(auth_params)
FinalParams(prm, auth_params) == Update(prm, auth_params)

Merge(s) == [s EXCEPT !.final_params = FinalParams(s.params, s.auth_data.params)]

\* requests.request(...) is issued with headers and final_params
Send(s, where, cred) ==
    [s EXCEPT !.pc = where,
              !.log = Append(@, RequestEvent(cred, s.auth_data.headers, s.final_params))]

\* the first request of _make_request, once get_auth_data has returned ad
SendFirst(s, ad, cred) == Send(Merge(WithAuth(s, ad)), "req1", cred)

\* the retried request: headers from the new auth_data, final_params as before
SendRetry(s, ad, cred) == Send(WithAuth(s, ad), "req2", cred)

\* _make_request from its first line to the first blocking call
BeginRequest(s0) ==
    LET s == [s0 EXCEPT !.log = <<>>, !.responses = <<>>,
                        !.auth_data = NoAuthData, !.final_params = NoEntries] IN
    IF authKind = "api_key"
    THEN IF ValidLocation(location)
         THEN SendFirst(s, ApiKeyAuthData(location, name, ApiKey, extra_headers), ApiKey)
         ELSE Raise(s, "ValueError", NoReply)
    ELSE IF NeedsAuth(s.access_token, s.expiry_time, now) THEN PostToken(s, "auth1")
         ELSE SendFirst(s, BearerAuthData(s.access_token), s.access_token)

\* mutant: the retry does not look at the auth class
ShouldRetryAnyAuth(status, kind) == status = Unauthorized

\* the retry test
ShouldRetry(status, kind) == status = Unauthorized /\ kind = "client_credentials"

\* mutant: only server errors raise
RaisesForServerError(status) == status >= 500 /\ status < 600

\* response.raise_for_status(): requests raises HTTPError for 4xx and 5xx
RaisesForStatus(status) == status >= 400 /\ status < 600

\* ----------------------------------------------------------------- get_all

\* mutant: the page is put in front of what was accumulated
ExtendInFront(res, data) == data \o res

\* results.extend(data)
Extend(res, data) == res \o data

\* mutant: the safety ceiling is missing
OffsetStopNoCeiling(off, tc, data) ==
    \/ (tc # Absent /\ off >= Get(tc, 0))
    \/ Len(data) = 0

\* mutant: the ceiling fires only above 25
OffsetStopAboveCeiling(off, tc, data) ==
    \/ off > OffsetCeiling
    \/ (tc # Absent /\ off >= Get(tc, 0))
    \/ Len(data) = 0

\* OFFSET, after offset += limit: the three break tests
OffsetStop(off, tc, data) ==
    \/ off >= OffsetCeiling
    \/ (tc # Absent /\ off >= Get(tc, 0))
    \/ Len(data) = 0

\* mutant: the ceiling fires one page early
PageStopEarly(p, tp, data) ==
    \/ p >= PageCeiling
    \/ (tp # Absent /\ p >= Get(tp, 0))
    \/ (tp = Absent /\ Len(data) = 0)

\* PAGE: the break tests before page += 1
PageStop(p, tp, data) ==
    \/ p > PageCeiling
    \/ (tp # Absent /\ p >= Get(tp, 0))
    \/ (tp = Absent /\ Len(data) = 0)

\* mutant: the ceiling fires one iteration late
HasMoreStopLate(flag, it) == it > IterationCeiling \/ ~flag

\* HAS_MORE: `if iteration >= 3: break`, then the test of `while has_more`
HasMoreStop(flag, it) == it >= IterationCeiling \/ ~flag

\* the offset / page parameter get_all writes into params before a get
Cursor(s) ==
    CASE s.strategy = "offset" -> Some(s.offset)
      [] s.strategy = "page" -> Some(s.page)
      [] OTHER -> Absent

\* params[offset_field] = offset / params[page_field] = page
SetCursor(s) ==
    CASE s.strategy = "offset" -> [s EXCEPT !.params = Update(@, Entry("offset", Num(s.offset)))]
      [] s.strategy = "page" -> [s EXCEPT !.params = Update(@, Entry("page", Num(s.page)))]
      [] OTHER -> s

\* the top of a loop body: params[...] = ..., then self.get(endpoint, params)
NextGet(s) == BeginRequest(SetCursor([s EXCEPT !.asked = Append(@, Cursor(s))]))

ReturnResults(s) == Return(s, Outcome("results", NoReply, s.results, ""))

\* the loop body after self.get returned the parsed response r
LoopBody(s, r) ==
    CASE s.strategy = "offset" ->
           LET tc == IF s.total_count = Absent THEN r.total_count ELSE s.total_count
               off == s.offset + s.limit
               s1 == [s EXCEPT !.results = Extend(@, r.orders),
                               !.total_count = tc, !.offset = off]
           IN  IF OffsetStop(off, tc, r.orders) THEN ReturnResults(s1) ELSE NextGet(s1)
      [] s.strategy = "page" ->
           LET s1 == [s EXCEPT !.results = Extend(@, r.orders)]
           IN  IF PageStop(s.page, r.total_pages, r.orders) THEN ReturnResults(s1)
               ELSE NextGet([s1 EXCEPT !.page = @ + 1])
      [] OTHER ->
           LET flag == Get(r.has_more, FALSE)
               s1 == [s EXCEPT !.iteration = @ + 1, !.results = Extend(@, r.orders),
                               !.has_more = flag]
           IN  IF HasMoreStop(flag, s1.iteration) THEN ReturnResults(s1) ELSE NextGet(s1)

\* get: _make_request(...).json(); a response without a JSON body makes
\* .json() raise
AfterGet(s, r) ==
    IF ~r.json THEN Raise(s, "JSONDecodeError", r)
    ELSE LoopBody([s EXCEPT !.served = Append(@, r),
                            !.nextItem = @ + Len(r.orders)], r)

\* _make_request from response.raise_for_status() on, and what the caller
\* (the user of get / post, or the loop of get_all) does with the response
Final(s, r) ==
    IF RaisesForStatus(r.status) THEN Raise(s, "HTTPError", r)
    ELSE IF s.op = "make_request" THEN Return(s, Outcome("response", r, <<>>, ""))
    ELSE AfterGet(s, r)

\* the params a caller passes to get_all: empty, or with a limit
ListParams(lim) == IF lim = Absent THEN NoEntries ELSE Entry("limit", Num(Get(lim, 0)))

\* params.get(limit_field, ...)
LimitOf(prm) == IF "limit" \in DOMAIN prm THEN Some(prm["limit"].num) ELSE Absent

\* get_all from its first line to the first blocking call
GetAll(s, strat, lim) ==
    LET s1 == [s EXCEPT !.strategy = strat, !.results = <<>>] IN
    CASE strat = "offset" ->
           NextGet([s1 EXCEPT !.offset = 0, !.limit = Get(lim, DefaultLimit),
                              !.total_count = Absent])
      [] strat = "page" -> NextGet([s1 EXCEPT !.page = 1])
      [] strat = "has_more" -> NextGet([s1 EXCEPT !.has_more = TRUE, !.iteration = 0])
      [] OTHER -> ReturnResults(s1)

\* ------------------------------------------------------------------ actions

Last(sq) == sq[Len(sq)]

\* how many times the offset / page asked for last has been asked for
Repeats(a) ==
    IF a = <<>> \/ Last(a) = Absent THEN 0
    ELSE Cardinality({i \in 1..Len(a) : a[i] = Last(a)})

\* a new top-level call: the locals and the history of the previous one are gone
Fresh(s, opname) ==
    [s EXCEPT !.op = opname, !.pc = "idle", !.outcome = NoOutcome, !.strategy = "none",
              !.limit = 0, !.offset = 0, !.total_count = Absent, !.page = 0,
              !.iteration = 0, !.has_more = FALSE, !.results = <<>>, !.nextItem = 1,
              !.log = <<>>, !.responses = <<>>, !.asked = <<>>, !.served = <<>>,
              !.pre = NoPre, !.params = NoEntries, !.auth_data = NoAuthData,
              !.final_params = NoEntries]

AuthData(cred) == Outcome("auth_data", NoReply, <<>>, cred)

\* no operation is in progress: the caller may start one
Idle == pc \in {"idle", "done"}

Init ==
    /\ authKind \in AuthKinds
    /\ location \in (IF authKind = "api_key" THEN Locations ELSE {"header"})
    /\ name \in (IF authKind = "api_key" THEN Names ELSE {"x-api-key"})
    /\ extra_headers \in (IF authKind = "api_key" THEN ExtraHeaders ELSE {NoEntries})
    /\ now = 0
    /\ access_token = NoneToken
    /\ expiry_time = 0
    /\ op = "idle"
    /\ pc = "idle"
    /\ outcome = NoOutcome
    /\ strategy = "none"
    /\ limit = 0
    /\ offset = 0
    /\ total_count = Absent
    /\ page = 0
    /\ iteration = 0
    /\ has_more = FALSE
    /\ results = <<>>
    /\ nextItem = 1
    /\ log = <<>>
    /\ responses = <<>>
    /\ asked = <<>>
    /\ served = <<>>
    /\ pre = NoPre
    /\ params = NoEntries
    /\ auth_data = NoAuthData
    /\ final_params = NoEntries
    /\ granted = Absent
    /\ thread = [t \in Threads |-> NoThread]
    /\ issued = {}

\* the caller calls self.auth.get_auth_data()
CallGetAuthData ==
    /\ Idle
    /\ Becomes(
         LET s == [Fresh(Cur, "get_auth_data") EXCEPT
                     !.pre = [token |-> access_token, expiry |-> expiry_time, clock |-> now]]
         IN  IF authKind = "api_key"
             THEN IF ValidLocation(location)
                  THEN Return(WithAuth(s, ApiKeyAuthData(location, name, ApiKey, extra_headers)),
                              AuthData(ApiKey))
                  ELSE Raise(s, "ValueError", NoReply)
             ELSE IF NeedsAuth(s.access_token, s.expiry_time, now) THEN PostToken(s, "auth1")
                  ELSE Return(WithAuth(s, BearerAuthData(s.access_token)),
                              AuthData(s.access_token)))

\* the caller calls self.auth.force_refresh()
CallForceRefresh ==
    /\ Idle
    /\ authKind = "client_credentials"
    /\ Becomes(PostToken(ClearToken(Fresh(Cur, "force_refresh")), "refresh"))

\* the caller calls get / post
CallMakeRequest ==
    /\ Idle
    /\ \E prm \in RequestParams :
         Becomes(BeginRequest([Fresh(Cur, "make_request") EXCEPT !.params = prm]))

\* the caller calls get_all
CallGetAll ==
    /\ Idle
    /\ \E strat \in Strategies :
       \E lim \in LimitsFor(strat) :
         LET prm == ListParams(lim) IN
         Becomes(GetAll([Fresh(Cur, "get_all") EXCEPT !.params = prm], strat,
                        LimitOf(prm)))

\* the token endpoint answers the POST of get_auth_data's _authenticate
AuthReply ==
    /\ pc = "auth1"
    /\ \E r \in TokenReplies :
         Becomes(IF TokenReplyFails(r) THEN AuthError(Cur, r)
                 ELSE LET s == SetToken(Cur, r) IN
                      IF op = "get_auth_data"
                      THEN Return(WithAuth(s, BearerAuthData(s.access_token)),
                                  AuthData(s.access_token))
                      ELSE SendFirst(s, BearerAuthData(s.access_token), s.access_token))

\* the token endpoint answers the POST of force_refresh's _authenticate; in
\* _make_request, get_auth_data is then called again
RefreshReply ==
    /\ pc = "refresh"
    /\ \E r \in TokenReplies :
         Becomes(IF TokenReplyFails(r) THEN AuthError(Cur, r)
                 ELSE LET s == SetToken(Cur, r) IN
                      IF op = "force_refresh"
                      THEN Return(s, Outcome("returned", NoReply, <<>>, ""))
                      ELSE IF NeedsAuth(s.access_token, s.expiry_time, now)
                           THEN PostToken(s, "auth2")
                           ELSE SendRetry(s, BearerAuthData(s.access_token),
                                          s.access_token))

\* the token endpoint answers the POST of the second get_auth_data of _make_request
ReauthReply ==
    /\ pc = "auth2"
    /\ \E r \in TokenReplies :
         Becomes(IF TokenReplyFails(r) THEN AuthError(Cur, r)
                 ELSE LET s == SetToken(Cur, r) IN
                      SendRetry(s, BearerAuthData(s.access_token), s.access_token))

\* the target API answers the first requests.request of _make_request
Response ==
    /\ pc = "req1"
    /\ \E r \in ApiReplies(strategy, nextItem) :
         LET s == [Cur EXCEPT !.responses = Append(@, r)]
             s1 == IF ShouldRetry(r.status, authKind) THEN PostToken(ClearToken(s), "refresh")
                   ELSE Final(s, r)
         IN  Repeats(s1.asked) <= MaxRepeats /\ Becomes(s1)

\* the target API answers the retried requests.request of _make_request
RetryResponse ==
    /\ pc = "req2"
    /\ \E r \in ApiReplies(strategy, nextItem) :
         LET s1 == Final([Cur EXCEPT !.responses = Append(@, r)], r)
         IN  Repeats(s1.asked) <= MaxRepeats /\ Becomes(s1)

\* time passes
Tick ==
    /\ now < MaxClock
    /\ now' = now + 1
    /\ UNCHANGED <<config, frame, shared>>

Next ==
    \/ CallGetAuthData
    \/ CallForceRefresh
    \/ CallMakeRequest
    \/ CallGetAll
    \/ AuthReply
    \/ RefreshReply
    \/ ReauthReply
    \/ Response
    \/ RetryResponse
    \/ Tick

Spec == Init /\ [][Next]_vars

\* ------------------------------------ threads sharing ClientCredentialsAuth

(***************************************************************************)
(* Several threads call get_auth_data() and force_refresh() on one         *)
(* ClientCredentialsAuth.  Nothing synchronises them, so a step is one     *)
(* read or one write of self.access_token / self.expiry_time; the token    *)
(* POST with its reply is one step, since it touches no shared field.      *)
(***************************************************************************)

\* the thread is not inside a call
ThreadIdle(t) == thread[t].pc \in {"idle", "done", "raised"}

\* another thread is inside _authenticate
OthersAuthenticate(t) ==
    \E u \in Threads \ {t} : thread[u].pc \in {"post", "set_token", "set_expiry"}

\* mutant: a thread does not authenticate while another one does
AuthenticatesUnlessBusy(need, busy) == need /\ ~busy

\* `if ...: self._authenticate()`: the test alone decides
Authenticates(need, busy) == need

\* the thread moves on; the other threads stay where they are
Moves(t, th) == thread' = [thread EXCEPT ![t] = th]

\* what the test of get_auth_data has read
Saw(tok, exp, t) == Some([token |-> tok, expiry |-> exp, clock |-> t])

\* a thread calls get_auth_data() or force_refresh()
ThreadCall ==
    \E t \in Threads, o \in {"get_auth_data", "force_refresh"} :
        /\ ThreadIdle(t)
        /\ Moves(t, [NoThread EXCEPT !.op = o,
                       !.pc = IF o = "get_auth_data" THEN "test_token" ELSE "clear_token"])
        /\ UNCHANGED <<config, now, frame, issued>>

\* get_auth_data: `not self.access_token`
ThreadTestToken ==
    \E t \in Threads :
        /\ thread[t].pc = "test_token"
        /\ Moves(t, [thread[t] EXCEPT
                       !.saw = Saw(access_token, expiry_time, now),
                       !.pc = IF Authenticates(Falsy(access_token), OthersAuthenticate(t))
                              THEN "post"
                              ELSE IF Falsy(access_token) THEN "return" ELSE "test_expiry"])
        /\ UNCHANGED <<config, now, frame, issued>>

\* get_auth_data: `or time.time() >= self.expiry_time`
ThreadTestExpiry ==
    \E t \in Threads :
        /\ thread[t].pc = "test_expiry"
        /\ Moves(t, [thread[t] EXCEPT
                       !.saw = {[s EXCEPT !.expiry = expiry_time, !.clock = now] : s \in @},
                       !.pc = IF Authenticates(now >= expiry_time, OthersAuthenticate(t))
                              THEN "post" ELSE "return"])
        /\ UNCHANGED <<config, now, frame, issued>>

\* _authenticate: requests.post, raise_for_status, token_data["access_token"]
ThreadFetch ==
    \E t \in Threads, r \in TokenReplies :
        /\ thread[t].pc = "post"
        /\ Moves(t, [thread[t] EXCEPT
                       !.fetches = @ + 1,
                       !.token_data = IF r.status >= 400 \/ ~r.has_token THEN Absent
                                      ELSE Some(r),
                       !.pc = IF r.status >= 400 \/ ~r.has_token THEN "raised"
                              ELSE "set_token"])
        /\ issued' = IF r.status >= 400 \/ ~r.has_token THEN issued
                     ELSE issued \cup {r.access_token}
        /\ UNCHANGED <<config, now, frame>>

\* _authenticate: self.access_token = token_data["access_token"]
ThreadSetToken ==
    \E t \in Threads :
        /\ thread[t].pc = "set_token"
        /\ \E r \in thread[t].token_data : access_token' = r.access_token
        /\ Moves(t, [thread[t] EXCEPT !.pc = "set_expiry"])
        /\ UNCHANGED <<config, now, expiry_time, calls, issued>>

\* _authenticate: self.expiry_time = time.time() + expires_in, then the
\* return of force_refresh or the last line of get_auth_data
ThreadSetExpiry ==
    \E t \in Threads :
        /\ thread[t].pc = "set_expiry"
        /\ \E r \in thread[t].token_data :
             IF r.numeric
             THEN /\ expiry_time' = now + Get(r.expires_in, DefaultExpiresIn)
                  /\ Moves(t, [thread[t] EXCEPT
                                 !.pc = IF thread[t].op = "force_refresh" THEN "done"
                                        ELSE "return"])
             ELSE /\ expiry_time' = expiry_time
                  /\ Moves(t, [thread[t] EXCEPT !.pc = "raised"])
        /\ UNCHANGED <<config, now, access_token, calls, issued>>

\* get_auth_data: return {"headers": {"Authorization": f"Bearer {self.access_token}"}, ...}
ThreadReturn ==
    \E t \in Threads :
        /\ thread[t].pc = "return"
        /\ Moves(t, [thread[t] EXCEPT !.pc = "done",
                                      !.ret = Some(BearerAuthData(access_token))])
        /\ UNCHANGED <<config, now, frame, issued>>

\* force_refresh: self.access_token = None
ThreadClearToken ==
    \E t \in Threads :
        /\ thread[t].pc = "clear_token"
        /\ access_token' = NoneToken
        /\ Moves(t, [thread[t] EXCEPT !.pc = "clear_expiry"])
        /\ UNCHANGED <<config, now, expiry_time, calls, issued>>

\* force_refresh: self.expiry_time = 0, then self._authenticate()
ThreadClearExpiry ==
    \E t \in Threads :
        /\ thread[t].pc = "clear_expiry"
        /\ expiry_time' = 0
        /\ Moves(t, [thread[t] EXCEPT !.pc = "post"])
        /\ UNCHANGED <<config, now, access_token, calls, issued>>

InitThreads == Init /\ authKind = "client_credentials"

NextThreads ==
    \/ ThreadCall
    \/ ThreadTestToken
    \/ ThreadTestExpiry
    \/ ThreadFetch
    \/ ThreadSetToken
    \/ ThreadSetExpiry
    \/ ThreadReturn
    \/ ThreadClearToken
    \/ ThreadClearExpiry
    \/ Tick

SpecThreads == InitThreads /\ [][NextThreads]_vars

\* ------------------------------------------------------- reading a history

Fetches(l) == Cardinality({i \in 1..Len(l) : l[i].ev = "fetch"})

Requests(l) == Cardinality({i \in 1..Len(l) : l[i].ev = "request"})

\* the token POSTs made after the first API request of the history
FetchesAfterFirstRequest(l) ==
    Cardinality({i \in 1..Len(l) :
        l[i].ev = "fetch" /\ \E j \in 1..(i - 1) : l[j].ev = "request"})

RECURSIVE Flat(_)
\* the item arrays of the served pages, one after the other
Flat(ps) == IF ps = <<>> THEN <<>> ELSE ps[1].orders \o Flat(Tail(ps))

IsHttpErrorStatus(st) == st >= 400 /\ st <= 599

Is2xx(st) == st >= 200 /\ st <= 299

Done(opname) == op = opname /\ pc = "done"

\* the current _make_request has its final response: the second one, or a
\* first one that the retry rule does not apply to
HasFinalResponse ==
    \/ Len(responses) = 2
    \/ (Len(responses) = 1
        /\ ~(responses[1].status = 401 /\ authKind = "client_credentials"))

\* ------------------------------------------------------------------- claims

\* C1: on a ClientCredentials client, when the first response of a
\* _make_request is 401, exactly one token fetch is made between the two
\* requests, whatever non-empty token and expires_in the token endpoint
\* replies; there is exactly one retried request, and a 401 on it ends the
\* call with that 401.
C1_OneFetchBetweenRequests ==
    (/\ authKind = "client_credentials"
     /\ op \in {"make_request", "get_all"}
     /\ responses # <<>>
     /\ responses[1].status = 401
     /\ Requests(log) = 2
     /\ \A i \in 1..Len(log) : log[i].ev = "request" => log[i].auth # "")
    => /\ FetchesAfterFirstRequest(log) = 1
       /\ (Len(responses) = 2 /\ responses[2].status = 401
             => pc = "done" /\ outcome = Outcome("HTTPError", responses[2], <<>>, ""))

\* a direct get_auth_data() call on ClientCredentialsAuth has returned
GetAuthDataReturned ==
    /\ authKind = "client_credentials"
    /\ Done("get_auth_data")
    /\ outcome.kind = "auth_data"

\* C2 as stated: a get_auth_data() call fetches no token when a token of an
\* earlier successful reply is cached and the clock is before expiry_time,
\* and exactly one token otherwise (the first call, or the clock at or past
\* expiry_time).
C2_FetchOnlyWhenAbsentOrExpired ==
    GetAuthDataReturned
    => Fetches(log) = (IF pre.token # NoneToken /\ pre.clock < pre.expiry THEN 0 ELSE 1)

\* C2 amended: the same, for replies whose access_token is a non-empty
\* string; a cached empty access_token is fetched again on every call.
C2_FetchOnlyWhenFalsyOrExpired ==
    GetAuthDataReturned
    => Fetches(log) =
         (IF pre.token \notin {NoneToken, ""} /\ pre.clock < pre.expiry THEN 0 ELSE 1)

C2_Witness ==
    /\ GetAuthDataReturned
    /\ pre.token = "tokA"
    /\ pre.expiry > 0
    /\ pre.clock >= pre.expiry
    /\ Fetches(log) = 1

\* the stop condition of C3 for the response r to the request for page p
C3_Stops(p, r) ==
    \/ p > 3
    \/ (r.total_pages # Absent /\ \E tp \in r.total_pages : p >= tp)
    \/ (r.total_pages = Absent /\ Len(r.orders) = 0)

C4_Flag(r) == r.has_more = Some(TRUE)

\* C4: under HAS_MORE, get_all makes at least one get and at most 3, and
\* after its n-th response it stops exactly when the flag is false or absent
\* or n has reached 3; for the flags true, true, false it makes exactly 3.
C4_HasMoreTermination ==
    (op = "get_all" /\ strategy = "has_more")
    => /\ Len(asked) >= 1
       /\ Len(asked) <= 3
       /\ \A n \in 1..Len(served) :
            (n < Len(asked)) <=> ~(~C4_Flag(served[n]) \/ n >= 3)
       /\ (pc = "done" /\ outcome.kind = "results" => Len(served) = Len(asked))
       /\ (/\ pc = "done"
           /\ outcome.kind = "results"
           /\ Len(served) >= 3
           /\ C4_Flag(served[1]) /\ C4_Flag(served[2]) /\ ~C4_Flag(served[3]))
          => Len(asked) = 3

C4_Witness ==
    /\ Done("get_all")
    /\ strategy = "has_more"
    /\ outcome.kind = "results"
    /\ Len(served) = 3
    /\ C4_Flag(served[1]) /\ C4_Flag(served[2]) /\ ~C4_Flag(served[3])

\* the endpoint of C5: pages of 10, 10 and 5 items, then empty pages, and
\* no total count in any response
C5_Endpoint ==
    \A i \in 1..Len(served) :
        /\ Len(served[i].orders) = (IF i <= 2 THEN 10 ELSE IF i = 3 THEN 5 ELSE 0)
        /\ served[i].total_count = Absent

\* C5: under OFFSET with limit = 10 against that endpoint, get_all returns
\* exactly its 25 items, having asked for the offsets 0, 10 and 20 only.
C5_OffsetTenTenFive ==
    (/\ Done("get_all")
     /\ strategy = "offset"
     /\ limit = 10
     /\ outcome.kind = "results"
     /\ C5_Endpoint)
    => /\ asked = <<Some(0), Some(10), Some(20)>>
       /\ Len(outcome.items) = 25
       /\ outcome.items = Items(1, 25)

C5_Witness ==
    /\ Done("get_all")
    /\ strategy = "offset"
    /\ limit = 10
    /\ outcome.kind = "results"
    /\ C5_Endpoint
    /\ Len(served) = 3

\* C6: whenever get_all returns normally, its result is the concatenation,
\* in request order, of the item arrays of all the pages it fetched.
C6_ResultIsConcatenation ==
    (Done("get_all") /\ outcome.kind = "results") => outcome.items = Flat(served)

C6_Witness ==
    /\ Done("get_all")
    /\ strategy = "has_more"
    /\ outcome.kind = "results"
    /\ Len(served) = 3
    /\ \A i \in 1..3 : Len(served[i].orders) > 0

\* C7: get_all with a strategy tag that is none of OFFSET, PAGE, HAS_MORE
\* does not return a result (it fails with a configuration error).
C7_UnknownStrategyFails ==
    (Done("get_all") /\ strategy \notin {"offset", "page", "has_more"})
    => outcome.kind = "ValueError"

\* C8: when the get of a page fails during get_all, get_all is over with
\* that error: no further page is asked for and no accumulated item is
\* returned.
C8_PageFailureAborts ==
    (op = "get_all" /\ strategy \in {"offset", "page", "has_more"})
    => /\ (HasFinalResponse /\ (IsHttpErrorStatus(Last(responses).status)
                               \/ ~Last(responses).json))
          => /\ pc = "done"
             /\ outcome.kind \in {"HTTPError", "JSONDecodeError"}
             /\ outcome.resp = Last(responses)
       /\ (pc = "done" /\ outcome.kind # "results")
          => /\ outcome.items = <<>>
             /\ Len(asked) = Len(served) + 1

C8_Witness ==
    /\ Done("get_all")
    /\ outcome.kind = "HTTPError"
    /\ Len(served) = 2
    /\ Len(results) > 0

\* C9 as stated: _make_request returns a response only when the final
\* response is 2xx, and raises HTTPError with the final response for every
\* other final status.
C9_ReturnsOnly2xx ==
    (Done("make_request") /\ HasFinalResponse)
    => outcome = (IF Is2xx(Last(responses).status)
                  THEN Outcome("response", Last(responses), <<>>, "")
                  ELSE Outcome("HTTPError", Last(responses), <<>>, ""))

\* C9 amended: _make_request raises HTTPError with the final response when
\* its status is 4xx or 5xx, and returns the final response otherwise (also
\* for a 3xx).
C9_RaisesOn4xx5xx ==
    /\ (Done("make_request") /\ HasFinalResponse)
       => outcome = (IF IsHttpErrorStatus(Last(responses).status)
                     THEN Outcome("HTTPError", Last(responses), <<>>, "")
                     ELSE Outcome("response", Last(responses), <<>>, ""))
    /\ (Done("make_request") /\ outcome.kind \in {"response", "HTTPError"})
       => HasFinalResponse

C9_Witness ==
    /\ Done("make_request")
    /\ Len(responses) = 2
    /\ responses[2].status = 500
    /\ outcome.kind = "HTTPError"

\* C10: on an ApiKeyAuth client a _make_request issues one request only: no
\* token fetch, no retry, and a 401 is raised as HTTPError.
C10_ApiKeyNeverRetries ==
    (authKind = "api_key" /\ op = "make_request")
    => /\ Fetches(log) = 0
       /\ Requests(log) <= 1
       /\ access_token = NoneToken
       /\ responses # <<>>
          => /\ pc = "done"
             /\ Len(responses) = 1
             /\ Requests(log) = 1
             /\ (responses[1].status = 401
                   => outcome = Outcome("HTTPError", responses[1], <<>>, ""))

C10_Witness ==
    /\ authKind = "api_key"
    /\ Done("make_request")
    /\ responses # <<>>
    /\ responses[1].status = 401
    /\ outcome.kind = "HTTPError"

\* a direct get_auth_data() call on an APIKeyAuth with location "header" has
\* returned
C11_HeaderAuthReturned ==
    /\ authKind = "api_key"
    /\ location = "header"
    /\ Done("get_auth_data")
    /\ outcome.kind = "auth_data"

\* C11 as stated: for APIKeyAuth with location "header" and every name, key
\* and extra_headers (also extra_headers with an entry under name), the
\* headers of get_auth_data() map name to the key and contain every entry of
\* extra_headers, and its params are empty.
C11_NameAlwaysCarriesKey ==
    C11_HeaderAuthReturned
    => /\ name \in DOMAIN auth_data.headers
       /\ auth_data.headers[name] = ApiKey
       /\ \A k \in DOMAIN extra_headers :
            k \in DOMAIN auth_data.headers /\ auth_data.headers[k] = extra_headers[k]
       /\ auth_data.params = NoEntries

\* C11 amended: the headers of get_auth_data() are name and the keys of
\* extra_headers; they contain every entry of extra_headers, and map name to
\* the key when extra_headers has no entry under name (when it has one, the
\* extra_headers value is sent and the key is not); the params are empty.
C11_ExtraHeadersWin ==
    C11_HeaderAuthReturned
    => /\ DOMAIN auth_data.headers = {name} \cup DOMAIN extra_headers
       /\ \A k \in DOMAIN extra_headers : auth_data.headers[k] = extra_headers[k]
       /\ (name \notin DOMAIN extra_headers => auth_data.headers[name] = ApiKey)
       /\ auth_data.params = NoEntries

C11_Witness ==
    /\ C11_HeaderAuthReturned
    /\ name \in DOMAIN extra_headers
    /\ auth_data.headers[name] = extra_headers[name]
    /\ auth_data.headers[name] # ApiKey

\* sent is caller overlaid with auth: all keys of both, the auth value on
\* every auth key, the caller value on every other key
C12_IsOverlay(sent, caller, auth) ==
    /\ DOMAIN sent = (DOMAIN caller) \cup (DOMAIN auth)
    /\ \A k \in DOMAIN auth : sent[k] = auth[k]
    /\ \A k \in (DOMAIN caller) \ (DOMAIN auth) : sent[k] = caller[k]

\* the query parameters the configured auth contributes
C12_AuthParams ==
    IF authKind = "api_key" /\ location = "query" THEN Entry(name, Str(ApiKey))
    ELSE NoEntries

\* C12: the query parameters of every request _make_request sends are the
\* caller's params overlaid with the auth's query params: caller keys the
\* auth does not use are kept, and on a collision the auth value is sent;
\* also for the page requests of get_all when the auth parameter has the name
\* of the offset or page field.
C12_QueryParamsAreOverlay ==
    \A i \in 1..Len(log) :
        log[i].ev = "request" => C12_IsOverlay(log[i].params, params, C12_AuthParams)

C12_Witness ==
    /\ op = "get_all"
    /\ strategy = "offset"
    /\ authKind = "api_key"
    /\ location = "query"
    /\ name = "offset"
    /\ Len(asked) = 2
    /\ pc = "req1"
    /\ params["offset"] = Num(10)
    /\ Last(log).params["offset"] = Str(ApiKey)
    /\ Last(log).params["limit"] = Num(10)

\* C13: under OFFSET, get_all keeps fetching until a page with fewer than
\* limit records is returned: it goes on after every full page and stops
\* after the first page that has fewer than limit records.
C13_StopsAtFirstShortPage ==
    (op = "get_all" /\ strategy = "offset")
    => \A i \in 1..Len(served) : (i < Len(asked)) <=> Len(served[i].orders) >= limit

\* the total count get_all holds after k responses: that of the first
\* response that carried one
C15_TotalCount(k) ==
    LET has == {i \in 1..k : served[i].total_count # Absent} IN
    IF has = {} THEN Absent
    ELSE served[CHOOSE i \in has : \A j \in has : i <= j].total_count

\* the stop test after the k-th page, given whether the ceiling is hit
C15_Stops(k, ceiling) ==
    \/ ceiling
    \/ (C15_TotalCount(k) # Absent /\ \E tc \in C15_TotalCount(k) : k * limit >= tc)
    \/ Len(served[k].orders) = 0

\* the k-th request carries offset (k-1)*limit, limit being params[limit_field]
\* or 50
C15_Offsets ==
    /\ limit = (IF "limit" \in DOMAIN params THEN params["limit"].num ELSE 50)
    /\ \A k \in 1..Len(asked) : asked[k] = Some((k - 1) * limit)
    /\ (pc = "done" /\ outcome.kind = "results" => Len(served) = Len(asked))

C16_TotalCountFromFirstOnly ==
    (/\ Done("get_all")
     /\ strategy = "offset"
     /\ outcome.kind = "results"
     /\ served # <<>>
     /\ served[1].total_count = Absent)
    => \/ Len(served) * limit >= 25
       \/ Len(Last(served).orders) = 0

\* C17: get_all makes a bounded number of page requests for every strategy,
\* every limit and every sequence of successful responses: under PAGE at
\* most 4, under HAS_MORE at most 3, and under OFFSET every request asks for
\* an offset below the ceiling that is higher than all offsets asked before
\* (so at most 25 requests).
C17_BoundedRequests ==
    op = "get_all"
    => CASE strategy = "offset" ->
              \A k \in 1..Len(asked) :
                  /\ \A x \in asked[k] : x < 25
                  /\ \A j \in 1..(k - 1) : \A x \in asked[j], y \in asked[k] : x < y
         [] strategy = "page" -> Len(asked) <= 4
         [] strategy = "has_more" -> Len(asked) <= 3
         [] OTHER -> Len(asked) = 0

\* the first API request of a history
FirstRequest(l) ==
    l[CHOOSE i \in 1..Len(l) :
        l[i].ev = "request" /\ \A j \in 1..(i - 1) : l[j].ev # "request"]

\* the token force_refresh obtained, read on the step that issues the
\* retried request: the one the refresh reply stores, or the one stored while
\* the second get_auth_data waits for a token fetch of its own
C18_RefreshedToken == IF pc = "refresh" THEN access_token' ELSE access_token

\* C18: the request retried after a 401 has the query parameters of the
\* first request, and its Authorization header carries the token the refresh
\* (force_refresh) obtained, for every non-empty token the refresh obtains.
C18_RetryCarriesRefreshedToken ==
    [][(pc' = "req2" /\ pc # "req2" /\ C18_RefreshedToken # "")
       => /\ Last(log').params = FirstRequest(log).params
          /\ Last(log').headers = Entry("Authorization", Bearer(C18_RefreshedToken))]_vars

\* C19: between operations the token state is the initial one (no token,
\* expiry 0) or the access_token of the most recent successful token fetch
\* with that fetch's time + expires_in as expiry, also after failed fetches
\* and malformed token replies.
C19_TokenStateIsInitialOrLastGrant ==
    Idle
    => \/ (access_token = NoneToken /\ expiry_time = 0)
       \/ granted = Some([token |-> access_token, expiry |-> expiry_time])

\* the thread is in get_auth_data and its test is over
C14_Decided(t) ==
    /\ thread[t].op = "get_auth_data"
    /\ thread[t].saw # Absent
    /\ thread[t].pc # "test_expiry"

\* C14: threads that share one ClientCredentialsAuth authenticate
\* independently: a get_auth_data() whose test found the token absent or
\* expired makes a token fetch of its own, whatever the other thread is
\* doing, so two concurrent calls can both fetch for the same expiry (the
\* state C14_Witness).
C14_EachThreadAuthenticates ==
    \A t \in Threads :
        C14_Decided(t)
        => \A s \in thread[t].saw :
               (thread[t].pc = "post" \/ thread[t].fetches = 1)
               <=> NeedsAuth(s.token, s.expiry, s.clock)

\* both threads are in get_auth_data, saw the same expired token and have
\* both fetched a token
C14_Witness ==
    /\ \A t \in Threads :
          /\ thread[t].op = "get_auth_data"
          /\ thread[t].fetches = 1
          /\ thread[t].pc = "set_token"
          /\ \E s \in thread[t].saw :
                s.token = "tokA" /\ s.expiry > 0 /\ s.clock >= s.expiry
    /\ \A t, u \in Threads : thread[t].saw = thread[u].saw

\* C20: under every interleaving of get_auth_data() and force_refresh() by
\* threads that share one ClientCredentialsAuth, the Authorization header a
\* get_auth_data() returns carries a token the token endpoint has issued,
\* never a cleared or absent one.
C20_HeaderCarriesIssuedToken ==
    \A t \in Threads :
        (thread[t].op = "get_auth_data" /\ thread[t].pc = "done")
        => \A ad \in thread[t].ret :
               ad.headers \in {Entry("Authorization", Bearer(k)) : k \in issued}

====
